---- MODULE Spec2Model ----
\* negma: the configuration loader (src/src/config.rs, CFG::parse) and the part
\* of main (src/src/main.rs) that calls it, as a state machine.
\*
\* A string is a sequence of one-character strings; a line of the file is a
\* string; the file is a sequence of lines.  Option<T> is a sequence of length
\* 0 (None) or 1 (Some).
EXTENDS Integers, Sequences, FiniteSets, TLC

\* ------------------------------------------------------------------ bounds
\* Longest file (in lines) the environment puts on disk before the first run.
MaxLines == 2
\* The bytes between two of the points where a failing write is cut.
CutStride == 97
\* The age in days at which the age of the marker stops being counted.
MaxAge == 15

\* ------------------------------------------------------------------ strings
None == <<>>
Some(v) == <<v>>

\* An invalid UTF-8 byte: a line holding one fails to decode in reader.lines().
BadByte == "\\xFF"

\* char::is_whitespace, on the characters a line of the model can hold.
WhiteSpace == {" ", "\t"}

Upper == <<"A","B","C","D","E","F","G","H","I","J","K","L","M","N","O","P","Q","R","S","T","U","V","W","X","Y","Z">>
Lower == <<"a","b","c","d","e","f","g","h","i","j","k","l","m","n","o","p","q","r","s","t","u","v","w","x","y","z">>
Digits == <<"0","1","2","3","4","5","6","7","8","9">>

IsDigit(c) == \E i \in 1..10 : Digits[i] = c
DigitVal(c) == (CHOOSE i \in 1..10 : Digits[i] = c) - 1

\* str::to_lowercase
LowerChar(c) == IF \E i \in 1..26 : Upper[i] = c THEN Lower[CHOOSE i \in 1..26 : Upper[i] = c] ELSE c
to_lowercase(s) == [i \in 1..Len(s) |-> LowerChar(s[i])]

\* A trim that forgets the leading white space (trim_end alone).
RECURSIVE trim_end_only(_)
trim_end_only(s) == IF s # <<>> /\ s[Len(s)] \in WhiteSpace THEN trim_end_only(SubSeq(s, 1, Len(s) - 1)) ELSE s

\* str::trim
RECURSIVE trim_start(_)
trim_start(s) == IF s # <<>> /\ Head(s) \in WhiteSpace THEN trim_start(Tail(s)) ELSE s
RECURSIVE trim_end(_)
trim_end(s) == IF s # <<>> /\ s[Len(s)] \in WhiteSpace THEN trim_end(SubSeq(s, 1, Len(s) - 1)) ELSE s
trim(s) == trim_end(trim_start(s))

\* str::starts_with
starts_with(s, p) == Len(s) >= Len(p) /\ SubSeq(s, 1, Len(p)) = p

\* str::strip_prefix : Option<&str>
strip_prefix(s, p) == IF starts_with(s, p) THEN Some(SubSeq(s, Len(p) + 1, Len(s))) ELSE None

\* A split at the last '=' instead of the first (rsplitn).
splitn2_last(s) ==
  IF \E i \in 1..Len(s) : s[i] = "="
  THEN LET i == CHOOSE j \in 1..Len(s) : s[j] = "=" /\ \A k \in (j + 1)..Len(s) : s[k] # "="
       IN  <<SubSeq(s, 1, i - 1), SubSeq(s, i + 1, Len(s))>>
  ELSE <<s>>

\* s.splitn(2, '=').collect() : one part when s holds no '=', otherwise the text
\* before the first '=' and all the text after it.
splitn2(s) ==
  IF \E i \in 1..Len(s) : s[i] = "="
  THEN LET i == CHOOSE j \in 1..Len(s) : s[j] = "=" /\ \A k \in 1..(j - 1) : s[k] # "="
       IN  <<SubSeq(s, 1, i - 1), SubSeq(s, i + 1, Len(s))>>
  ELSE <<s>>

\* ------------------------------------------------------------------ numbers
I32Max == 2147483647
I32Min == (-2147483647) - 1

\* The digits of an i32, accumulated as core::num does: towards +infinity for a
\* positive literal, towards -infinity for a negative one, checked at each step.
RECURSIVE i32_digits(_, _, _)
i32_digits(ds, acc, positive) ==
  IF ds = <<>> THEN Some(acc)
  ELSE IF ~IsDigit(Head(ds)) THEN None
  ELSE LET d == DigitVal(Head(ds))
       IN  IF positive
           THEN IF acc > (I32Max - d) \div 10 THEN None
                ELSE i32_digits(Tail(ds), acc * 10 + d, positive)
           ELSE IF acc < (I32Min + d + 9) \div 10 THEN None
                ELSE i32_digits(Tail(ds), acc * 10 - d, positive)

\* val.parse::<i32>() : Option of the integer (None for Err).
parse_i32(s) ==
  IF s = <<>> THEN None
  ELSE IF Head(s) \in {"+", "-"} /\ Len(s) = 1 THEN None
  ELSE IF Head(s) = "+" THEN i32_digits(Tail(s), 0, TRUE)
  ELSE IF Head(s) = "-" THEN i32_digits(Tail(s), 0, FALSE)
  ELSE i32_digits(s, 0, TRUE)

\* A u32 is kept as two 16-bit limbs <<hi, lo>>, value hi * 65536 + lo.
Limb == 65536
U32(n) == <<n \div Limb, n % Limb>>

RECURSIVE u32_digits(_, _, _)
u32_digits(ds, hi, lo) ==
  IF ds = <<>> THEN Some(<<hi, lo>>)
  ELSE IF ~IsDigit(Head(ds)) THEN None
  ELSE LET l  == lo * 10 + DigitVal(Head(ds))
           h  == hi * 10 + (l \div Limb)
       IN  IF h >= Limb THEN None ELSE u32_digits(Tail(ds), h, l % Limb)

\* A parse that takes a sign and drops it, as if the field were signed.
parse_u32_signed(s) ==
  IF s = <<>> THEN None
  ELSE IF Head(s) \in {"+", "-"} /\ Len(s) = 1 THEN None
  ELSE IF Head(s) \in {"+", "-"} THEN u32_digits(Tail(s), 0, 0)
  ELSE u32_digits(s, 0, 0)

\* val.parse::<u32>() : an unsigned type takes a leading '+' and no '-'.
parse_u32(s) ==
  IF s = <<>> THEN None
  ELSE IF Head(s) \in {"+", "-"} /\ Len(s) = 1 THEN None
  ELSE IF Head(s) = "+" THEN u32_digits(Tail(s), 0, 0)
  ELSE u32_digits(s, 0, 0)

\* A comparison that forgets to_lowercase.
is_true_case_sensitive(val) == val \in {<<"t","r","u","e">>, <<"y","e","s">>, <<"1">>}

\* matches!(val.to_lowercase().as_str(), "true" | "yes" | "1")
is_true(val) == to_lowercase(val) \in {<<"t","r","u","e">>, <<"y","e","s">>, <<"1">>}

\* ------------------------------------------------------------------ the parser
K_EDITOR == <<"E","D","I","T","O","R">>
K_GIT == <<"G","I","T">>
K_KEEP == <<"K","E","E","P">>
K_SYSTEM_FLAKE == <<"S","Y","S","T","E","M","_","F","L","A","K","E">>
K_REBUILD_FLAGS == <<"R","E","B","U","I","L","D","_","F","L","A","G","S">>
K_CHANNEL == <<"C","H","A","N","N","E","L">>
K_AUTO_GC == <<"A","U","T","O","_","G","C">>
K_GC_AGE_DAYS == <<"G","C","_","A","G","E","_","D","A","Y","S">>
K_FORMATTER == <<"F","O","R","M","A","T","T","E","R">>
K_AUTO_FMT == <<"A","U","T","O","_","F","M","T">>
K_alias == <<"a","l","i","a","s">>

\* The prefixes tried by the else-if chain, in its order.
Keys == <<K_EDITOR, K_GIT, K_KEEP, K_SYSTEM_FLAKE, K_REBUILD_FLAGS, K_CHANNEL, K_AUTO_GC, K_GC_AGE_DAYS, K_FORMATTER, K_AUTO_FMT>>

\* One eprintln! of the parser: the line it names, which message, and the key
\* the message names (empty when it names none).
Warning(line_number, kind, key) == [line |-> line_number, kind |-> kind, key |-> key]

\* The locals of CFG::parse as `let mut` initialises them.
initial_locals ==
  [ editor        |-> <<"n","a","n","o">>,
    git           |-> <<>>,
    clrupam       |-> 5,
    alias         |-> <<>>,
    system_flake  |-> None,
    rebuild_flags |-> None,
    channel       |-> None,
    auto_gc       |-> FALSE,
    gc_age_days   |-> None,
    formatter     |-> None,
    auto_fmt      |-> FALSE ]

\* A parse_kv that takes a blank value for a syntax error.
parse_kv_nonblank(line, prefix, line_number) ==
  LET rest == strip_prefix(line, prefix)
  IN  IF rest = None THEN [val |-> None, warn |-> <<>>]
      ELSE LET parts == splitn2(trim(rest[1]))
           IN  IF Len(parts) = 2 /\ trim(parts[2]) # <<>>
               THEN [val |-> Some(trim(parts[2])), warn |-> <<>>]
               ELSE [val |-> None, warn |-> <<Warning(line_number, "syntax", prefix)>>]

\* The closure parse_kv: the value when the line starts with the prefix and
\* holds an '=' after it; a warning and None when it starts with the prefix and
\* holds none; None silently when it does not start with the prefix.
parse_kv(line, prefix, line_number) ==
  LET rest == strip_prefix(line, prefix)
  IN  IF rest = None THEN [val |-> None, warn |-> <<>>]
      ELSE LET parts == splitn2(trim(rest[1]))
           IN  IF Len(parts) = 2
               THEN [val |-> Some(trim(parts[2])), warn |-> <<>>]
               ELSE [val |-> None, warn |-> <<Warning(line_number, "syntax", prefix)>>]

\* An assignment that forgets the is_empty test.
set_optional_always(old, val) == Some(val)

\* if !val.is_empty() { field = Some(val); }
set_optional(old, val) == IF val # <<>> THEN Some(val) ELSE old

\* An insertion into a map keyed by the alias name instead of a push.
push_alias_replace(alias, parts) ==
  LET pair == <<trim(parts[1]), trim(parts[2])>>
  IN  IF \E i \in 1..Len(alias) : alias[i][1] = pair[1]
      THEN [i \in 1..Len(alias) |-> IF alias[i][1] = pair[1] THEN pair ELSE alias[i]]
      ELSE Append(alias, pair)

\* alias.push((parts[0].trim().to_string(), parts[1].trim().to_string()))
push_alias(alias, parts) == Append(alias, <<trim(parts[1]), trim(parts[2])>>)

\* The body of the branch of key number k, entered with the value val.
branch(k, val, st, line_number) ==
  CASE k = 1 -> [st |-> [st EXCEPT !.editor = val], warn |-> <<>>]
    [] k = 2 -> [st |-> [st EXCEPT !.git = val], warn |-> <<>>]
    [] k = 3 -> LET n == parse_i32(val)
                IN  IF n # None THEN [st |-> [st EXCEPT !.clrupam = n[1]], warn |-> <<>>]
                    ELSE [st |-> st, warn |-> <<Warning(line_number, "value", K_KEEP)>>]
    [] k = 4 -> [st |-> [st EXCEPT !.system_flake = set_optional(@, val)], warn |-> <<>>]
    [] k = 5 -> [st |-> [st EXCEPT !.rebuild_flags = set_optional(@, val)], warn |-> <<>>]
    [] k = 6 -> [st |-> [st EXCEPT !.channel = set_optional(@, val)], warn |-> <<>>]
    [] k = 7 -> [st |-> [st EXCEPT !.auto_gc = is_true(val)], warn |-> <<>>]
    [] k = 8 -> LET n == parse_u32(val)
                IN  IF n # None THEN [st |-> [st EXCEPT !.gc_age_days = Some(n[1])], warn |-> <<>>]
                    ELSE [st |-> st, warn |-> <<Warning(line_number, "value", K_GC_AGE_DAYS)>>]
    [] k = 9 -> [st |-> [st EXCEPT !.formatter = set_optional(@, val)], warn |-> <<>>]
    [] k = 10 -> [st |-> [st EXCEPT !.auto_fmt = is_true(val)], warn |-> <<>>]

\* The else-if chain from key number k on: the first key whose parse_kv gives a
\* value takes the line; a parse_kv that gives None falls through to the next
\* key, its warning (if any) already printed; the final else prints
\* "unrecognized line".
RECURSIVE chain(_, _, _, _, _)
chain(k, line, st, line_number, warn) ==
  IF k > Len(Keys)
  THEN [st |-> st, warn |-> warn \o <<Warning(line_number, "unrecognized", <<>>)>>]
  ELSE LET r == parse_kv(line, Keys[k], line_number)
       IN  IF r.val # None
           THEN LET b == branch(k, r.val[1], st, line_number)
                IN  [st |-> b.st, warn |-> warn \o r.warn \o b.warn]
           ELSE chain(k + 1, line, st, line_number, warn \o r.warn)

\* reader.lines() gives Err for a line that is not valid UTF-8.
decodes(raw) == \A i \in 1..Len(raw) : raw[i] # BadByte

\* One iteration of `for (index, line) in reader.lines().enumerate()`: the
\* locals after it and the warnings it prints.
process_line(st, raw, line_number) ==
  IF ~decodes(raw)
  THEN [st |-> st, warn |-> <<Warning(line_number, "read", <<>>)>>]
  ELSE LET line == trim(raw)
       IN  IF line = <<>> \/ starts_with(line, <<"#">>)
           THEN [st |-> st, warn |-> <<>>]
           ELSE IF starts_with(line, K_alias)
           THEN LET parts == splitn2(trim(SubSeq(line, Len(K_alias) + 1, Len(line))))
                IN  IF Len(parts) = 2
                    THEN [st |-> [st EXCEPT !.alias = push_alias(@, parts)], warn |-> <<>>]
                    ELSE [st |-> st, warn |-> <<Warning(line_number, "alias", <<>>)>>]
           ELSE chain(1, line, st, line_number, <<>>)

\* The whole loop over the lines from number from_index + 1 on.
RECURSIVE parse_lines(_, _, _)
parse_lines(st, lines, from_index) ==
  IF from_index >= Len(lines) THEN [st |-> st, warn |-> <<>>]
  ELSE LET r == process_line(st, lines[from_index + 1], from_index + 1)
           t == parse_lines(r.st, lines, from_index + 1)
       IN  [st |-> t.st, warn |-> r.warn \o t.warn]

\* ------------------------------------------------------------------ the disk
\* The raw string default_content, as the lines written to a fresh config.cfg
\* (each followed by a newline); the comment gives the source line.
default_content ==
  <<
      <<"#"," ","N","e","g","m","a"," ","C","o","n","f","i","g","u","r","a","t","i","o","n"," ","F","i","l","e">>,   \* 97
      <<>>,   \* 98
      <<"#","#","#","#","#","#","#","#","#","#","#","#","#","#","#","#","#","#","#","#","#","#","#","#","#","#","#","#","#","#","#","#","#","#","#","#","#","#","#","#","#","#","#","#","#","#","#","#","#","#","#","#","#","#","#","#","#","#","#","#","#","#","#">>,   \* 99
      <<"#"," "," "," "," "," "," "," "," "," "," "," "," "," "," "," "," "," "," "," "," "," "," "," "," "," "," "," "," "," "," "," "," "," "," "," "," "," "," "," "," "," "," "," "," "," "," "," "," "," "," "," "," "," "," "," "," "," "," "," "," "," ","#">>,   \* 100
      <<"#"," "," "," "," "," "," "," "," "," "," "," "," "," "," "," "," "," ","N","e","g","m","a"," ","-"," ","N","i","x","O","S"," ","M","a","n","a","g","e","r"," ","C","o","n","f","i","g"," "," "," "," "," "," "," "," "," "," "," "," "," "," "," "," ","#">>,   \* 101
      <<"#"," "," "," "," "," "," "," "," "," "," "," "," "," "," "," "," "," "," "," "," "," "," "," "," "," "," "," "," "," "," "," "," "," "," "," "," "," "," "," "," "," "," "," "," "," "," "," "," "," "," "," "," "," "," "," "," "," "," "," "," "," ","#">>,   \* 102
      <<"#"," ","T","h","i","s"," ","f","i","l","e"," ","c","o","n","t","r","o","l","s"," ","h","o","w"," ","N","e","g","m","a"," ","m","a","n","a","g","e","s"," ","y","o","u","r"," ","N","i","x","O","S"," ","s","y","s","t","e","m","."," "," "," "," "," ","#">>,   \* 103
      <<"#"," ","I","t"," ","i","s"," ","a","u","t","o","m","a","t","i","c","a","l","l","y"," ","c","r","e","a","t","e","d"," ","a","n","d"," ","u","p","d","a","t","e","d"," ","b","y"," ","N","e","g","m","a","."," "," "," "," "," "," "," "," "," "," "," ","#">>,   \* 104
      <<"#"," "," "," "," "," "," "," "," "," "," "," "," "," "," "," "," "," "," "," "," "," "," "," "," "," "," "," "," "," "," "," "," "," "," "," "," "," "," "," "," "," "," "," "," "," "," "," "," "," "," "," "," "," "," "," "," "," "," "," "," "," ","#">>,   \* 105
      <<"#","#","#","#","#","#","#","#","#","#","#","#","#","#","#","#","#","#","#","#","#","#","#","#","#","#","#","#","#","#","#","#","#","#","#","#","#","#","#","#","#","#","#","#","#","#","#","#","#","#","#","#","#","#","#","#","#","#","#","#","#","#","#">>,   \* 106
      <<>>,   \* 107
      <<"#"," ","=","=","="," ","B","a","s","i","c"," ","C","o","n","f","i","g","u","r","a","t","i","o","n"," ","=","=","=">>,   \* 108
      <<>>,   \* 109
      <<"#"," ","E","D","I","T","O","R"," ","s","p","e","c","i","f","i","e","s"," ","y","o","u","r"," ","p","r","e","f","e","r","r","e","d"," ","e","d","i","t","o","r"," ","f","o","r"," ","e","d","i","t","i","n","g"," ","c","o","n","f","i","g"," ","f","i","l","e","s",".">>,   \* 110
      <<"#"," ","E","x","a","m","p","l","e",":"," ","E","D","I","T","O","R"," ","="," ","h","e","l","i","x">>,   \* 111
      <<"E","D","I","T","O","R"," ","="," ","n","a","n","o">>,   \* 112
      <<>>,   \* 113
      <<"#"," ","G","I","T"," ","s","p","e","c","i","f","i","e","s"," ","y","o","u","r"," ","s","y","s","t","e","m"," ","c","o","n","f","i","g","u","r","a","t","i","o","n"," ","g","i","t"," ","r","e","p","o"," ","(","o","p","t","i","o","n","a","l",")",".">>,   \* 114
      <<"#"," ","E","x","a","m","p","l","e",":"," ","G","I","T"," ","="," ","h","t","t","p","s",":","/","/","g","i","t","h","u","b",".","c","o","m","/","u","s","e","r","n","a","m","e","/","n","i","x","o","s","-","c","o","n","f","i","g">>,   \* 115
      <<"G","I","T"," ","="," ">>,   \* 116
      <<>>,   \* 117
      <<"#"," ","K","E","E","P"," ","s","p","e","c","i","f","i","e","s"," ","h","o","w"," ","m","a","n","y"," ","s","y","s","t","e","m"," ","g","e","n","e","r","a","t","i","o","n","s"," ","t","o"," ","k","e","e","p"," ","w","h","e","n"," ","c","l","e","a","n","u","p"," ","i","s"," ","c","a","l","l","e","d",".">>,   \* 118
      <<"#"," ","0"," ","="," ","k","e","e","p"," ","c","u","r","r","e","n","t",","," ","1"," ","="," ","k","e","e","p"," ","c","u","r","r","e","n","t"," ","+"," ","l","a","s","t"," ","o","n","e",","," ","e","t","c",".">>,   \* 119
      <<"#"," ","E","x","a","m","p","l","e",":"," ","K","E","E","P"," ","="," ","5">>,   \* 120
      <<"K","E","E","P"," ","="," ","5">>,   \* 121
      <<>>,   \* 122
      <<"#"," ","=","=","="," ","A","d","v","a","n","c","e","d"," ","C","o","n","f","i","g","u","r","a","t","i","o","n"," ","=","=","=">>,   \* 123
      <<>>,   \* 124
      <<"#"," ","S","Y","S","T","E","M","_","F","L","A","K","E"," ","s","p","e","c","i","f","i","e","s"," ","a"," ","f","l","a","k","e"," ","U","R","I"," ","o","r"," ","l","o","c","a","l"," ","p","a","t","h"," ","f","o","r"," ","n","i","x","o","s","-","r","e","b","u","i","l","d",".">>,   \* 125
      <<"#"," ","E","x","a","m","p","l","e",":"," ","S","Y","S","T","E","M","_","F","L","A","K","E"," ","="," ","g","i","t","h","u","b",":","u","s","e","r","n","a","m","e","/","n","i","x","o","s","-","c","o","n","f","i","g">>,   \* 126
      <<"S","Y","S","T","E","M","_","F","L","A","K","E"," ","="," ">>,   \* 127
      <<>>,   \* 128
      <<"#"," ","R","E","B","U","I","L","D","_","F","L","A","G","S"," ","s","p","e","c","i","f","i","e","s"," ","a","d","d","i","t","i","o","n","a","l"," ","f","l","a","g","s"," ","f","o","r"," ","n","i","x","o","s","-","r","e","b","u","i","l","d",".">>,   \* 129
      <<"#"," ","E","x","a","m","p","l","e",":"," ","R","E","B","U","I","L","D","_","F","L","A","G","S"," ","="," ","-","-","i","m","p","u","r","e"," ","-","-","s","h","o","w","-","t","r","a","c","e">>,   \* 130
      <<"R","E","B","U","I","L","D","_","F","L","A","G","S"," ","=">>,   \* 131
      <<>>,   \* 132
      <<"#"," ","C","H","A","N","N","E","L"," ","s","p","e","c","i","f","i","e","s"," ","y","o","u","r"," ","p","r","e","f","e","r","r","e","d"," ","N","i","x"," ","c","h","a","n","n","e","l",".">>,   \* 133
      <<"#"," ","E","x","a","m","p","l","e",":"," ","C","H","A","N","N","E","L"," ","="," ","n","i","x","o","s","-","u","n","s","t","a","b","l","e">>,   \* 134
      <<"C","H","A","N","N","E","L"," ","="," ">>,   \* 135
      <<>>,   \* 136
      <<"#"," ","A","U","T","O","_","G","C"," ","s","p","e","c","i","f","i","e","s"," ","i","f"," ","a","u","t","o","m","a","t","i","c"," ","g","a","r","b","a","g","e"," ","c","o","l","l","e","c","t","i","o","n"," ","s","h","o","u","l","d"," ","r","u","n"," ","d","u","r","i","n","g"," ","r","e","b","u","i","l","d",".">>,   \* 137
      <<"#"," ","V","a","l","i","d"," ","v","a","l","u","e","s",":"," ","t","r","u","e"," ","/"," ","f","a","l","s","e">>,   \* 138
      <<"A","U","T","O","_","G","C"," ","="," ","t","r","u","e">>,   \* 139
      <<>>,   \* 140
      <<"#"," ","G","C","_","A","G","E","_","D","A","Y","S"," ","s","p","e","c","i","f","i","e","s"," ","t","h","e"," ","m","a","x","i","m","u","m"," ","a","g","e"," ","(","i","n"," ","d","a","y","s",")"," ","b","e","f","o","r","e"," ","G","C"," ","r","e","m","o","v","a","l",".">>,   \* 141
      <<"#"," ","E","x","a","m","p","l","e",":"," ","G","C","_","A","G","E","_","D","A","Y","S"," ","="," ","1","5">>,   \* 142
      <<"G","C","_","A","G","E","_","D","A","Y","S"," ","="," ","1","5">>,   \* 143
      <<>>,   \* 144
      <<"#"," ","F","O","R","M","A","T","T","E","R"," ","s","p","e","c","i","f","i","e","s"," ","w","h","i","c","h"," ","N","i","x"," ","f","o","r","m","a","t","t","e","r"," ","t","o"," ","u","s","e"," ","f","o","r"," ","a","u","t","o","f","m","t"," ","o","p","e","r","a","t","i","o","n","s",".">>,   \* 145
      <<"#"," ","S","u","p","p","o","r","t","e","d",":"," ","n","i","x","f","m","t","-","r","f","c","-","s","t","y","l","e",","," ","a","l","e","j","a","n","d","r","a",","," ","n","i","x","p","k","g","s","-","f","m","t",","," ","e","t","c",".">>,   \* 146
      <<"#"," ","E","x","a","m","p","l","e",":"," ","F","O","R","M","A","T","T","E","R"," ","="," ","a","l","e","j","a","n","d","r","a">>,   \* 147
      <<"F","O","R","M","A","T","T","E","R"," ","="," ","a","l","e","j","a","n","d","r","a">>,   \* 148
      <<>>,   \* 149
      <<"#"," ","A","U","T","O","_","F","M","T"," ","s","p","e","c","i","f","i","e","s"," ","w","h","e","t","h","e","r"," ","N","e","g","m","a"," ","s","h","o","u","l","d"," ","a","u","t","o","-","f","o","r","m","a","t"," ","s","y","s","t","e","m"," ","c","o","n","f","i","g"," ","b","e","f","o","r","e"," ","r","e","b","u","i","l","d",".">>,   \* 150
      <<"#"," ","V","a","l","i","d"," ","v","a","l","u","e","s",":"," ","t","r","u","e"," ","/"," ","f","a","l","s","e">>,   \* 151
      <<"A","U","T","O","_","F","M","T"," ","="," ","t","r","u","e">>,   \* 152
      <<>>,   \* 153
      <<"#"," ","=","=","="," ","A","l","i","a","s","e","s"," ","=","=","=">>,   \* 154
      <<"#"," ","A","l","i","a","s","e","s"," ","a","l","l","o","w"," ","y","o","u"," ","t","o"," ","c","r","e","a","t","e"," ","s","h","o","r","t","c","u","t","s"," ","f","o","r"," ","c","o","m","m","o","n"," ","c","o","m","m","a","n","d","s",".">>,   \* 155
      <<"#"," ","E","x","a","m","p","l","e",":">>,   \* 156
      <<"#"," ","a","l","i","a","s"," ","m","k"," ","="," ","b","u","i","l","d">>,   \* 157
      <<"#"," ","a","l","i","a","s"," ","b","k","u","p"," ","="," ","b","a","c","k","u","p">>,   \* 158
      <<>>    \* 159
  >>

\* The lines reader.lines() gives for the first n bytes of the content whose
\* lines are `lines`: every complete line, then the cut line if any byte of it
\* was written.
RECURSIVE first_bytes(_, _)
first_bytes(lines, n) ==
  IF lines = <<>> \/ n = 0 THEN <<>>
  ELSE IF n > Len(Head(lines))
       THEN <<Head(lines)>> \o first_bytes(Tail(lines), n - Len(Head(lines)) - 1)
       ELSE <<SubSeq(Head(lines), 1, n)>>

\* default_content.as_bytes().len()
RECURSIVE byte_len(_)
byte_len(lines) == IF lines = <<>> THEN 0 ELSE Len(Head(lines)) + 1 + byte_len(Tail(lines))

\* A failed write_all may have written any number of the bytes; the model
\* follows the cuts at multiples of CutStride.
WriteCuts == { n \in 0..(byte_len(default_content) - 1) : n % CutStride = 0 }

\* ------------------------------------------------------------------ the files
\* The lines the files on disk before the first run are made of.
L_empty == <<>>
L_blank == <<" ","\t">>
L_comment == <<" "," ","#"," ","a","l","i","a","s"," ","a"," ","="," ","b">>
L_undecodable == <<"K","E","E","P"," ","="," ","9",BadByte>>
L_alias_mk_build == <<"a","l","i","a","s"," ","m","k"," ","="," ","b","u","i","l","d">>
L_alias_mk_switch == <<"a","l","i","a","s"," ","m","k"," ","="," ","s","w","i","t","c","h">>
L_alias_ls == <<" ","a","l","i","a","s"," ","l","s","=","l","s"," ","-","a","=","b"," ">>
L_alias_no_eq == <<"a","l","i","a","s"," ","m","k"," ","b","u","i","l","d">>
L_aliasFoo == <<"a","l","i","a","s","F","o","o"," ","="," ","x">>
L_editor_no_eq == <<"E","D","I","T","O","R"," ","v","i","m">>
L_editor_tight == <<"\t","E","D","I","T","O","R","=","v","i"," ">>
L_EDITORX == <<"E","D","I","T","O","R","X"," ","="," ","5">>
L_keep_abc == <<"K","E","E","P"," ","="," ","a","b","c">>
L_keep_neg == <<"K","E","E","P"," ","="," ","-","3">>
L_gc_age_neg == <<"G","C","_","A","G","E","_","D","A","Y","S"," ","="," ","-","1">>
L_gc_age_0 == <<"G","C","_","A","G","E","_","D","A","Y","S"," ","="," ","0">>
L_unrecognized == <<"b","o","g","u","s"," ","="," ","1">>
L_flake == <<"S","Y","S","T","E","M","_","F","L","A","K","E"," ","="," ","a","=","b">>
L_flake_blank == <<"S","Y","S","T","E","M","_","F","L","A","K","E"," ","="," ">>
L_formatter == <<"F","O","R","M","A","T","T","E","R"," ","="," ","v","i","m">>
L_formatter_blank == <<"F","O","R","M","A","T","T","E","R"," ","=">>
L_auto_gc_YES == <<"A","U","T","O","_","G","C"," ","="," ","Y","E","S">>
L_auto_gc_maybe == <<"A","U","T","O","_","G","C"," ","="," ","m","a","y","b","e">>
L_auto_fmt_1 == <<"A","U","T","O","_","F","M","T"," ","="," ","1">>
L_auto_fmt_blank == <<"A","U","T","O","_","F","M","T"," ","="," ">>

CoreLines ==
  { L_empty, L_blank, L_comment, L_undecodable, L_alias_mk_build,
    L_alias_mk_switch, L_alias_ls, L_alias_no_eq, L_aliasFoo, L_editor_no_eq,
    L_editor_tight, L_EDITORX, L_keep_abc, L_keep_neg, L_gc_age_neg,
    L_gc_age_0, L_unrecognized, L_flake, L_flake_blank, L_formatter,
    L_formatter_blank, L_auto_gc_YES, L_auto_gc_maybe, L_auto_fmt_1, L_auto_fmt_blank }

V_vim == <<"v","i","m">>
V_a_eq_b == <<"a","=","b">>
V_blank == <<>>
V_3 == <<"3">>
V_minus1 == <<"-","1">>
V_plus7 == <<"+","7">>
V_007 == <<"0","0","7">>
V_abc == <<"a","b","c">>
V_YES == <<"Y","E","S">>
V_True == <<"T","r","u","e">>
V_true == <<"t","r","u","e">>
V_false == <<"f","a","l","s","e">>
V_1 == <<"1">>
V_maybe == <<"m","a","y","b","e">>
V_i32max == <<"2","1","4","7","4","8","3","6","4","7">>
V_i32over == <<"2","1","4","7","4","8","3","6","4","8">>
V_i32min == <<"-","2","1","4","7","4","8","3","6","4","8">>
V_u32max == <<"4","2","9","4","9","6","7","2","9","5">>
V_u32over == <<"4","2","9","4","9","6","7","2","9","6">>

Values ==
  { V_vim, V_a_eq_b, V_blank, V_3, V_minus1, V_plus7, V_007, V_abc, V_YES, V_True,
    V_true, V_false, V_1, V_maybe, V_i32max, V_i32over, V_i32min, V_u32max, V_u32over }

\* The line `K = v`, and `K=v` within white space.
kv_line(K, v) == K \o <<" ", "=", " ">> \o v
kv_tight(K, v) == <<" ">> \o K \o <<"=">> \o v \o <<"\t">>

KeySet == { Keys[k] : k \in 1..Len(Keys) }

RECURSIVE SeqsUpTo(_, _)
SeqsUpTo(S, n) ==
  IF n = 0 THEN { <<>> }
  ELSE LET shorter == SeqsUpTo(S, n - 1)
       IN  shorter \cup { Append(f, l) : f \in { g \in shorter : Len(g) = n - 1 }, l \in S }

\* Every file of at most MaxLines core lines; every one-line file `K = v`; and
\* every two-line file that assigns the same key twice.
Files ==
  SeqsUpTo(CoreLines, MaxLines)
    \cup { <<kv_line(K, v)>> : K \in KeySet, v \in Values }
    \cup { <<kv_tight(K, v)>> : K \in KeySet, v \in Values }
    \cup UNION { { <<kv_line(K, v), kv_line(K, w)>> : v \in Values, w \in Values } : K \in KeySet }

\* ------------------------------------------------------------------ the state
VARIABLES
  HOME,       \* environment: TRUE when env::var("HOME") is Ok
  dir,        \* disk: TRUE when ~/.config/negma exists
  file,       \* disk: config.cfg, None when absent, Some(lines) when present
  marker,     \* disk: auto_gc_marker, None when absent, Some(age in days)
  pc,         \* where the running process is
  issu,       \* main: `let issu`
  index,      \* CFG::parse: the number of lines the loop has taken
  locals,     \* CFG::parse: editor, git, clrupam, alias, ... being built
  cfg,        \* main: `let mut cfg`, None before CFG::parse has returned
  stdout,     \* the notices println! has written, in order
  stderr,     \* the warnings and errors eprintln! has written, in order
  exit_code   \* None while the process runs, Some(status) once it has ended

vars == <<HOME, dir, file, marker, pc, issu, index, locals, cfg, stdout, stderr, exit_code>>
disk == <<dir, file, marker>>
parser == <<index, locals>>

\* A fatal error: the eprintln! and the exit(1) that follows it.
Fatal(what) == [line |-> 0, kind |-> "error", key |-> what]

\* The days that may pass between two invocations.
ElapsedDays == {0, 7, 15}

\* What the command line asks for: args[1], "" when there is none.
Commands == {"", "home", "edit-cfg", "nix", "bogus"}

Init ==
  /\ HOME \in BOOLEAN
  /\ dir \in BOOLEAN
  /\ file \in {None} \cup { Some(f) : f \in Files }
  /\ file # None => dir /\ HOME
  /\ marker = None
  /\ pc = "main"
  /\ issu = FALSE
  /\ index = 0
  /\ locals = initial_locals
  /\ cfg = None
  /\ stdout = <<>>
  /\ stderr = <<>>
  /\ exit_code = None

\* main.rs 15-26: the effective uid is read, then HOME.
Main ==
  /\ pc = "main"
  /\ \E root \in BOOLEAN : issu' = root
  /\ IF HOME
     THEN /\ pc' = "parse"
          /\ UNCHANGED <<stderr, exit_code>>
     ELSE /\ pc' = "exit"
          /\ stderr' = Append(stderr, Fatal("HOME"))
          /\ exit_code' = Some(1)
  /\ UNCHANGED <<HOME, disk, parser, cfg, stdout>>

\* A Bootstrap that forgets the exists() test.
Locate_always_create ==
  /\ pc = "parse"
  /\ stdout' = Append(stdout, "configuration file not found")
  /\ pc' = "create_dir"
  /\ UNCHANGED <<HOME, disk, issu, parser, cfg, stderr, exit_code>>

\* A Bootstrap that takes an empty file for a missing one.
Locate_recreate_empty ==
  /\ pc = "parse"
  /\ IF ~HOME
     THEN /\ pc' = "exit"
          /\ stderr' = Append(stderr, Fatal("HOME"))
          /\ exit_code' = Some(1)
          /\ UNCHANGED stdout
     ELSE /\ IF file = None \/ file = Some(<<>>)
             THEN /\ stdout' = Append(stdout, "configuration file not found")
                  /\ pc' = "create_dir"
             ELSE /\ pc' = "open"
                  /\ UNCHANGED stdout
          /\ UNCHANGED <<stderr, exit_code>>
  /\ UNCHANGED <<HOME, disk, issu, parser, cfg>>

\* config.rs 41-63: HOME again, the path, and `if !config_path.exists()`.
Locate ==
  /\ pc = "parse"
  /\ IF ~HOME
     THEN /\ pc' = "exit"
          /\ stderr' = Append(stderr, Fatal("HOME"))
          /\ exit_code' = Some(1)
          /\ UNCHANGED stdout
     ELSE /\ IF file = None
             THEN /\ stdout' = Append(stdout, "configuration file not found")
                  /\ pc' = "create_dir"
             ELSE /\ pc' = "open"
                  /\ UNCHANGED stdout
          /\ UNCHANGED <<stderr, exit_code>>
  /\ UNCHANGED <<HOME, disk, issu, parser, cfg>>

\* config.rs 65-80: fs::create_dir_all(parent).
CreateDir ==
  /\ pc = "create_dir"
  /\ \E ok \in BOOLEAN :
       IF ok
       THEN /\ dir' = TRUE
            /\ pc' = "create"
            /\ UNCHANGED <<stderr, exit_code>>
       ELSE /\ pc' = "exit"
            /\ stderr' = Append(stderr, Fatal("create_dir_all"))
            /\ exit_code' = Some(1)
            /\ UNCHANGED dir
  /\ UNCHANGED <<HOME, file, marker, issu, parser, cfg, stdout>>

\* config.rs 82-95: File::create(&config_path) leaves an empty file.
CreateFile ==
  /\ pc = "create"
  /\ \E ok \in BOOLEAN :
       IF ok
       THEN /\ file' = Some(<<>>)
            /\ pc' = "write"
            /\ UNCHANGED <<stderr, exit_code>>
       ELSE /\ pc' = "exit"
            /\ stderr' = Append(stderr, Fatal("File::create"))
            /\ exit_code' = Some(1)
            /\ UNCHANGED file
  /\ UNCHANGED <<HOME, dir, marker, issu, parser, cfg, stdout>>

\* A write whose failure is reported and not acted on: no exit(1).
WriteDefault_no_exit ==
  /\ pc = "write"
  /\ \E n \in WriteCuts \cup {byte_len(default_content)} :
       IF n = byte_len(default_content)
       THEN /\ file' = Some(default_content)
            /\ stdout' = Append(stdout, "created default configuration")
            /\ UNCHANGED stderr
       ELSE /\ file' = Some(first_bytes(default_content, n))
            /\ stderr' = Append(stderr, Fatal("write_all"))
            /\ UNCHANGED stdout
  /\ pc' = "open"
  /\ UNCHANGED <<HOME, dir, marker, issu, parser, cfg, exit_code>>

\* config.rs 162-183: file.write_all(default_content.as_bytes()); a failure
\* leaves the bytes already written.
WriteDefault ==
  /\ pc = "write"
  /\ \E n \in WriteCuts \cup {byte_len(default_content)} :
       IF n = byte_len(default_content)
       THEN /\ file' = Some(default_content)
            /\ stdout' = Append(stdout, "created default configuration")
            /\ pc' = "open"
            /\ UNCHANGED <<stderr, exit_code>>
       ELSE /\ file' = Some(first_bytes(default_content, n))
            /\ pc' = "exit"
            /\ stderr' = Append(stderr, Fatal("write_all"))
            /\ exit_code' = Some(1)
            /\ UNCHANGED stdout
  /\ UNCHANGED <<HOME, dir, marker, issu, parser, cfg>>

\* config.rs 185-212: File::open, the reader and the `let mut` locals.
OpenFile ==
  /\ pc = "open"
  /\ \E ok \in BOOLEAN :
       IF ok
       THEN /\ index' = 0
            /\ locals' = initial_locals
            /\ pc' = "lines"
            /\ UNCHANGED <<stderr, exit_code>>
       ELSE /\ pc' = "exit"
            /\ stderr' = Append(stderr, Fatal("File::open"))
            /\ exit_code' = Some(1)
            /\ UNCHANGED parser
  /\ UNCHANGED <<HOME, disk, issu, cfg, stdout>>

\* A loop that unwraps the line: a line that does not decode ends the process.
ReadLine_abort ==
  /\ pc = "lines"
  /\ index < Len(file[1])
  /\ IF decodes(file[1][index + 1])
     THEN /\ LET r == process_line(locals, file[1][index + 1], index + 1)
             IN  /\ locals' = r.st
                 /\ stderr' = stderr \o r.warn
          /\ index' = index + 1
          /\ UNCHANGED <<pc, exit_code>>
     ELSE /\ pc' = "exit"
          /\ exit_code' = Some(1)
          /\ stderr' = Append(stderr, Fatal("read"))
          /\ UNCHANGED <<index, locals>>
  /\ UNCHANGED <<HOME, disk, issu, cfg, stdout>>

\* config.rs 214-338: one iteration of the loop over reader.lines().
ReadLine ==
  /\ pc = "lines"
  /\ index < Len(file[1])
  /\ LET r == process_line(locals, file[1][index + 1], index + 1)
     IN  /\ locals' = r.st
         /\ stderr' = stderr \o r.warn
  /\ index' = index + 1
  /\ UNCHANGED <<HOME, disk, pc, issu, cfg, stdout, exit_code>>

\* The struct CFG { ..., issu: false } that CFG::parse returns.
make_cfg(st) ==
  [ editor        |-> st.editor,
    git           |-> st.git,
    keep          |-> st.clrupam,
    alias         |-> st.alias,
    system_flake  |-> st.system_flake,
    rebuild_flags |-> st.rebuild_flags,
    channel       |-> st.channel,
    auto_gc       |-> st.auto_gc,
    gc_age_days   |-> st.gc_age_days,
    formatter     |-> st.formatter,
    auto_fmt      |-> st.auto_fmt,
    issu          |-> FALSE ]

\* config.rs 340-354 and main.rs 27: the loop is over, `let mut cfg = CFG::parse()`.
Return ==
  /\ pc = "lines"
  /\ index = Len(file[1])
  /\ cfg' = Some(make_cfg(locals))
  /\ pc' = "set_issu"
  /\ UNCHANGED <<HOME, disk, issu, parser, stdout, stderr, exit_code>>

\* A main that forgets to write cfg.issu.
SetIssu_forgotten ==
  /\ pc = "set_issu"
  /\ pc' = "auto_gc"
  /\ UNCHANGED <<HOME, disk, issu, parser, cfg, stdout, stderr, exit_code>>

\* main.rs 28: cfg.issu = issu.
SetIssu ==
  /\ pc = "set_issu"
  /\ cfg' = Some([cfg[1] EXCEPT !.issu = issu])
  /\ pc' = "auto_gc"
  /\ UNCHANGED <<HOME, disk, issu, parser, stdout, stderr, exit_code>>

\* main.rs 71: cfg.gc_age_days.unwrap_or(7), in days.
GcDefaultDays == 7
interval_days(c) == IF c.gc_age_days = None THEN U32(GcDefaultDays) ELSE c.gc_age_days[1]

\* A test that asks for more than the interval.
is_due_strict(age, interval) == interval[1] = 0 /\ age > interval[2]

\* main.rs 76: now.duration_since(birth_time) >= interval, for an age in days.
is_due(age, interval) == interval[1] = 0 /\ age >= interval[2]

\* How the due branch of perform_auto_gc can end: all three calls succeed; the
\* collection fails (exit_if_fail); fs::remove_file fails (exit(1)); the
\* File::create after the removal fails (unwrap panics).
GcOutcomes == {"collected", "collect_failed", "remove_failed", "create_failed"}

\* The exit status of a Rust process that panicked.
PanicStatus == 101

\* main.rs 30-32 and 67-98: `if cfg.auto_gc { perform_auto_gc(&cfg, &home_dir) }`.
AutoGc ==
  /\ pc = "auto_gc"
  /\ IF ~cfg[1].auto_gc
     THEN /\ pc' = "dispatch"
          /\ UNCHANGED <<marker, stdout, stderr, exit_code>>
     ELSE IF marker = None
     THEN /\ \E created \in BOOLEAN :
               IF created
               THEN /\ marker' = Some(0)
                    /\ pc' = "dispatch"
                    /\ UNCHANGED <<stderr, exit_code>>
               ELSE /\ pc' = "exit"
                    /\ stderr' = Append(stderr, Fatal("marker File::create"))
                    /\ exit_code' = Some(PanicStatus)
                    /\ UNCHANGED marker
          /\ UNCHANGED stdout
     ELSE IF ~is_due(marker[1], interval_days(cfg[1]))
     THEN /\ pc' = "dispatch"
          /\ UNCHANGED <<marker, stdout, stderr, exit_code>>
     ELSE /\ stdout' = Append(stdout, "Auto GC: Collecting garbage")
          /\ \E outcome \in GcOutcomes :
               CASE outcome = "collected" ->
                      /\ marker' = Some(0)
                      /\ pc' = "dispatch"
                      /\ UNCHANGED <<stderr, exit_code>>
                 [] outcome = "collect_failed" ->
                      /\ pc' = "exit"
                      /\ stderr' = Append(stderr, Fatal("Auto GC failed"))
                      /\ exit_code' = Some(1)
                      /\ UNCHANGED marker
                 [] outcome = "remove_failed" ->
                      /\ pc' = "exit"
                      /\ stderr' = Append(stderr, Fatal("Failed to remove old GC marker"))
                      /\ exit_code' = Some(1)
                      /\ UNCHANGED marker
                 [] outcome = "create_failed" ->
                      /\ pc' = "exit"
                      /\ stderr' = Append(stderr, Fatal("marker File::create"))
                      /\ exit_code' = Some(PanicStatus)
                      /\ marker' = None
  /\ UNCHANGED <<HOME, dir, file, issu, parser, cfg>>

\* main.rs 34-63: the command is run; what it launches is outside the model,
\* only its success or failure is followed.
Dispatch ==
  /\ pc = "dispatch"
  /\ \E cmd \in Commands, launched \in BOOLEAN :
       /\ pc' = "exit"
       /\ IF cmd = "" THEN exit_code' = Some(0) /\ UNCHANGED stderr
          ELSE IF cmd = "bogus" \/ (cmd = "nix" /\ ~cfg[1].issu)
          THEN exit_code' = Some(1) /\ stderr' = Append(stderr, Fatal(cmd))
          ELSE IF launched THEN exit_code' = Some(0) /\ UNCHANGED stderr
          ELSE exit_code' = Some(1) /\ stderr' = Append(stderr, Fatal(cmd))
  /\ UNCHANGED <<HOME, disk, issu, parser, cfg, stdout>>

\* The process has ended; the program is invoked again, some days later.
Restart ==
  /\ pc = "exit"
  /\ pc' = "main"
  /\ \E d \in ElapsedDays :
       marker' = IF marker = None THEN None
                 ELSE Some(IF marker[1] + d > MaxAge THEN MaxAge ELSE marker[1] + d)
  /\ issu' = FALSE
  /\ index' = 0
  /\ locals' = initial_locals
  /\ cfg' = None
  /\ stdout' = <<>>
  /\ stderr' = <<>>
  /\ exit_code' = None
  /\ UNCHANGED <<HOME, dir, file>>

\* The steps of one process.
Step ==
  \/ Main
  \/ Locate
  \/ CreateDir
  \/ CreateFile
  \/ WriteDefault
  \/ OpenFile
  \/ ReadLine
  \/ Return
  \/ SetIssu
  \/ AutoGc
  \/ Dispatch

Next == Step \/ Restart

Spec == Init /\ [][Next]_vars

\* ------------------------------------------------------------------ what the claims speak of
\* The parser is at work, and `raw` is the line it took last.
JustRead(raw) == pc = "lines" /\ index >= 1 /\ file[1][index] = raw

\* CFG::parse has just returned to main.
Returned == pc = "set_issu"

\* The documented defaults (spec section 3), with is_privileged false.
DefaultSettings ==
  [ editor        |-> <<"n","a","n","o">>,
    git           |-> <<>>,
    keep          |-> 5,
    alias         |-> <<>>,
    system_flake  |-> <<>>,
    rebuild_flags |-> <<>>,
    channel       |-> <<>>,
    auto_gc       |-> FALSE,
    gc_age_days   |-> <<>>,
    formatter     |-> <<>>,
    auto_fmt      |-> FALSE,
    issu          |-> FALSE ]

\* The characters of a line that are not white space.
Ink(raw) == SelectSeq(raw, LAMBDA c : c \notin WhiteSpace)

\* An empty or blank line, or one whose first non-blank character is '#'.
BlankOrComment(raw) == Ink(raw) = <<>> \/ Head(Ink(raw)) = "#"

\* The field of the locals that key number k assigns.
FieldOf(k, st) ==
  CASE k = 1 -> st.editor
    [] k = 2 -> st.git
    [] k = 3 -> st.clrupam
    [] k = 4 -> st.system_flake
    [] k = 5 -> st.rebuild_flags
    [] k = 6 -> st.channel
    [] k = 7 -> st.auto_gc
    [] k = 8 -> st.gc_age_days
    [] k = 9 -> st.formatter
    [] k = 10 -> st.auto_fmt

OptionalKeys == {4, 5, 6, 9}
BooleanKeys == {7, 10}

\* ------------------------------------------------------------------ C1
StringType(s) == DOMAIN s = 1..Len(s) /\ \A i \in 1..Len(s) : s[i] \in STRING
OptionalStringType(o) == o = None \/ (Len(o) = 1 /\ StringType(o[1]))

\* Every field of the record holds a value of its type.
FullyPopulated(c) ==
  /\ StringType(c.editor)
  /\ StringType(c.git)
  /\ c.keep \in I32Min..I32Max
  /\ \A i \in 1..Len(c.alias) : Len(c.alias[i]) = 2 /\ StringType(c.alias[i][1]) /\ StringType(c.alias[i][2])
  /\ OptionalStringType(c.system_flake)
  /\ OptionalStringType(c.rebuild_flags)
  /\ OptionalStringType(c.channel)
  /\ c.auto_gc \in BOOLEAN
  /\ c.gc_age_days = None \/ (Len(c.gc_age_days) = 1 /\ c.gc_age_days[1] \in (0..(Limb - 1)) \X (0..(Limb - 1)))
  /\ OptionalStringType(c.formatter)
  /\ c.auto_fmt \in BOOLEAN
  /\ c.issu \in BOOLEAN

\* C1: whatever the lines of the file are, the loop of the parser is never
\* stuck (a line is left to take, or all are taken and it returns); each step
\* takes exactly the next line and leaves the process running, so the loop ends
\* after Len(file) steps; and the step that ends it returns, all lines taken, a
\* record with every field populated.
C1_ParseAlwaysReturns ==
  /\ [](pc = "lines" => file # None /\ (index < Len(file[1]) \/ index = Len(file[1])))
  /\ [][pc = "lines" =>
          \/ pc' = "lines" /\ index' = index + 1 /\ exit_code' = None
          \/ /\ pc' = "set_issu"
             /\ index = Len(file[1])
             /\ exit_code' = None
             /\ cfg' # None
             /\ FullyPopulated(cfg'[1])]_vars

\* A file of an undecodable line and a malformed one has been parsed to the end.
C1_Witness ==
  /\ Returned
  /\ file = Some(<<L_undecodable, L_alias_no_eq>>)
  /\ index = 2
  /\ Len(stderr) = 2

\* ------------------------------------------------------------------ C2
\* C2: a file that is empty or holds only blank lines and comments parses to
\* the documented defaults, and no warning is printed.
C2_EmptyFileGivesDefaults ==
  (Returned /\ \A i \in 1..Len(file[1]) : BlankOrComment(file[1][i]))
    => cfg = Some(DefaultSettings) /\ stderr = <<>>

\* A file of an indented comment and a blank line has been parsed.
C2_Witness == Returned /\ file = Some(<<L_comment, L_blank>>) /\ cfg = Some(DefaultSettings)

\* ------------------------------------------------------------------ C3
\* The valid values of each key's type among Values, with the typed value each
\* one denotes.
IntLiterals ==
  { <<V_3, 3>>, <<V_minus1, -1>>, <<V_plus7, 7>>, <<V_007, 7>>, <<V_1, 1>>,
    <<V_i32max, 2147483647>>, <<V_i32min, (-2147483647) - 1>> }
UnsignedLiterals ==
  { <<V_3, <<0, 3>>>>, <<V_plus7, <<0, 7>>>>, <<V_007, <<0, 7>>>>, <<V_1, <<0, 1>>>>,
    <<V_i32max, <<32767, 65535>>>>, <<V_u32max, <<65535, 65535>>>> }
ValidValues(k) ==
  CASE k \in {1, 2} -> { <<v, v>> : v \in Values }
    [] k = 3 -> IntLiterals
    [] k \in OptionalKeys -> { <<v, Some(v)>> : v \in Values \ {V_blank} }
    [] k \in BooleanKeys -> { <<V_true, TRUE>>, <<V_false, FALSE>> }
    [] k = 8 -> { <<e[1], Some(e[2])>> : e \in UnsignedLiterals }

\* C3: right after the line `K = v` (or `K=v` within white space) is parsed,
\* for a valid value v of K's type, the field of K holds v, trimmed and typed;
\* a value that holds an '=' is kept whole.
C3_KeyValueRoundTrip ==
  \A k \in 1..Len(Keys) : \A e \in ValidValues(k) :
    (JustRead(kv_line(Keys[k], e[1])) \/ JustRead(kv_tight(Keys[k], e[1])))
      => FieldOf(k, locals) = e[2]

\* `GIT = a=b` has been parsed and git holds a=b.
C3_Witness == JustRead(kv_line(K_GIT, V_a_eq_b)) /\ locals.git = V_a_eq_b

\* ------------------------------------------------------------------ C4
\* The text of a line after its first '=', and whether it holds one.
HasEq(line) == \E i \in 1..Len(line) : line[i] = "="
AfterEq(line) ==
  LET i == CHOOSE j \in 1..Len(line) : line[j] = "=" /\ \A m \in 1..(j - 1) : line[m] # "="
  IN  trim(SubSeq(line, i + 1, Len(line)))

\* Decimal literals, read as text: the digits after an optional sign, without
\* their leading zeros, compared with the digits of the largest magnitude.
Unsigned(v) == IF v # <<>> /\ Head(v) \in {"+", "-"} THEN Tail(v) ELSE v
AllDigits(ds) == ds # <<>> /\ \A i \in 1..Len(ds) : IsDigit(ds[i])
RECURSIVE NoLeadingZeros(_)
NoLeadingZeros(ds) == IF Len(ds) > 1 /\ Head(ds) = "0" THEN NoLeadingZeros(Tail(ds)) ELSE ds
AtMost(a, b) ==
  \/ Len(a) < Len(b)
  \/ a = b
  \/ /\ Len(a) = Len(b)
     /\ \E i \in 1..Len(a) : DigitVal(a[i]) < DigitVal(b[i]) /\ \A j \in 1..(i - 1) : a[j] = b[j]
IsI32Literal(v) ==
  /\ AllDigits(Unsigned(v))
  /\ AtMost(NoLeadingZeros(Unsigned(v)), IF Head(v) = "-" THEN <<"2","1","4","7","4","8","3","6","4","8">> ELSE V_i32max)
IsU32Literal(v) ==
  /\ v # <<>>
  /\ Head(v) # "-"
  /\ AllDigits(Unsigned(v))
  /\ AtMost(NoLeadingZeros(Unsigned(v)), V_u32max)

\* The malformed lines the claim lists: an alias line or a key line without
\* '=', KEEP with a value that is no i32, GC_AGE_DAYS with a value that is no
\* u32, and a line that starts with neither `alias` nor a key.
Malformed(raw) ==
  LET line == trim(raw)
  IN  /\ decodes(raw)
      /\ ~BlankOrComment(raw)
      /\ \/ starts_with(line, K_alias) /\ ~HasEq(line)
         \/ \E K \in KeySet : starts_with(line, K) /\ ~HasEq(line)
         \/ starts_with(line, K_KEEP) /\ HasEq(line) /\ ~IsI32Literal(AfterEq(line))
         \/ starts_with(line, K_GC_AGE_DAYS) /\ HasEq(line) /\ ~IsU32Literal(AfterEq(line))
         \/ ~starts_with(line, K_alias) /\ \A K \in KeySet : ~starts_with(line, K)

WellFormedLines(lines) == SelectSeq(lines, LAMBDA raw : ~Malformed(raw))

\* C4: the step that takes a malformed line prints a warning and changes no
\* local of the parser; and the record returned for a file is the one the
\* parser builds from the file's other lines alone.
C4_MalformedLineChangesNothing ==
  /\ [][(pc = "lines" /\ index < Len(file[1]) /\ index' = index + 1 /\ Malformed(file[1][index + 1]))
          => locals' = locals /\ Len(stderr') > Len(stderr)]_vars
  /\ [](Returned => cfg = Some(make_cfg(parse_lines(initial_locals, WellFormedLines(file[1]), 0).st)))

\* `KEEP = -3` then `KEEP = abc` have been parsed: keep is still -3, one warning.
C4_Witness ==
  /\ JustRead(L_keep_abc)
  /\ index = 2
  /\ file[1][1] = L_keep_neg
  /\ locals.clrupam = -3
  /\ Len(stderr) = 1

\* ------------------------------------------------------------------ C5
\* A line the parser accepts as an alias, and the pair it stands for.
AcceptedAlias(raw) == decodes(raw) /\ starts_with(trim(raw), K_alias) /\ HasEq(trim(raw))
AliasPair(raw) ==
  LET line == trim(raw)
      i == CHOOSE j \in 1..Len(line) : line[j] = "=" /\ \A m \in 1..(j - 1) : line[m] # "="
  IN  <<trim(SubSeq(line, Len(K_alias) + 1, i - 1)), trim(SubSeq(line, i + 1, Len(line)))>>

\* The pairs of the accepted alias lines among `lines`, in the order of the lines.
RECURSIVE AliasesOf(_)
AliasesOf(lines) ==
  IF lines = <<>> THEN <<>>
  ELSE (IF AcceptedAlias(Head(lines)) THEN <<AliasPair(Head(lines))>> ELSE <<>>) \o AliasesOf(Tail(lines))

\* C5: while the parser works, and in the record it returns, the alias
\* sequence is the pairs of the accepted alias lines taken so far, one per
\* line, in file order, equal names included.
C5_AliasesInFileOrder ==
  /\ pc = "lines" => locals.alias = AliasesOf(SubSeq(file[1], 1, index))
  /\ Returned => cfg[1].alias = AliasesOf(file[1])

\* `alias mk = build` then `alias mk = switch`: both pairs, in that order.
C5_Witness ==
  /\ Returned
  /\ file = Some(<<L_alias_mk_build, L_alias_mk_switch>>)
  /\ cfg[1].alias = << <<<<"m","k">>, <<"b","u","i","l","d">>>>, <<<<"m","k">>, <<"s","w","i","t","c","h">>>> >>

\* ------------------------------------------------------------------ C6
\* The values among Values that stand for true.
TrueValues == {V_YES, V_True, V_true, V_1}

\* Some line taken so far starts with the key K.
Appeared(K) == \E i \in 1..index : decodes(file[1][i]) /\ starts_with(trim(file[1][i]), K)

\* C6: the step that takes `K = v` for a boolean key sets the field to true
\* exactly when v is true, yes or 1 in any case, and prints nothing; and the
\* field of a key that has not appeared is false.
C6_BooleanValues ==
  /\ [][\A k \in BooleanKeys : \A v \in Values :
          (pc = "lines" /\ index < Len(file[1]) /\ index' = index + 1
             /\ file[1][index + 1] \in {kv_line(Keys[k], v), kv_tight(Keys[k], v)})
            => FieldOf(k, locals') = (v \in TrueValues) /\ stderr' = stderr]_vars
  /\ [](\A k \in BooleanKeys : (pc = "lines" /\ ~Appeared(Keys[k])) => FieldOf(k, locals) = FALSE)

\* `AUTO_GC = YES` then `AUTO_GC = maybe`: true after the first, false after
\* the second, and no warning.
C6_Witness ==
  /\ JustRead(kv_line(K_AUTO_GC, V_maybe))
  /\ index = 2
  /\ file[1][1] = kv_line(K_AUTO_GC, V_YES)
  /\ locals.auto_gc = FALSE
  /\ stderr = <<>>

\* ------------------------------------------------------------------ C7
\* A line that assigns the key K a blank value.
BlankAssignments(K) == { kv_line(K, V_blank), kv_tight(K, V_blank), K \o <<" ", "=">> }

\* C7 as claimed: once a blank assignment to an optional string key has been
\* taken, the field is absent, whatever lines came before.
C7_BlankMakesAbsent ==
  \A k \in OptionalKeys : \A raw \in BlankAssignments(Keys[k]) :
    JustRead(raw) => FieldOf(k, locals) = None

\* C7 as the code has it: a blank assignment to an optional string key leaves
\* the field as it was (absent when no earlier line gave it a value, still
\* holding the earlier value otherwise), and an optional string field is never
\* present with the empty string.
C7_BlankLeavesFieldAsItWas ==
  /\ [][\A k \in OptionalKeys :
          (pc = "lines" /\ index < Len(file[1]) /\ index' = index + 1
             /\ file[1][index + 1] \in BlankAssignments(Keys[k]))
            => FieldOf(k, locals') = FieldOf(k, locals)]_vars
  /\ [](\A k \in OptionalKeys : FieldOf(k, locals) # Some(<<>>))

\* `FORMATTER = vim` then `FORMATTER = `: the field still holds vim.
C7_Witness ==
  /\ JustRead(kv_line(K_FORMATTER, V_blank))
  /\ index = 2
  /\ file[1][1] = kv_line(K_FORMATTER, V_vim)
  /\ locals.formatter = Some(V_vim)

\* ------------------------------------------------------------------ C8
\* C8: when the file exists, Bootstrap goes straight to opening it, with no
\* directory or file created, nothing written and no notice printed; a file
\* that exists is never removed and is written only by the Bootstrap that
\* created it; and that Bootstrap, when it succeeds, leaves the directory and
\* the file with the default content.
C8_BootstrapIdempotent ==
  /\ [][(pc = "parse" /\ file # None) => pc' = "open" /\ UNCHANGED <<dir, file, stdout>>]_vars
  /\ [][file # None => file' # None /\ (pc # "write" => file' = file)]_vars
  /\ [][(pc = "write" /\ pc' = "open") => dir' /\ file' = Some(default_content)]_vars
  /\ [][stdout' # stdout => pc \in {"exit", "auto_gc"} \/ (file = None /\ pc = "parse") \/ pc = "write"]_vars

\* A later invocation finds the file an earlier one created: it is about to
\* open it, having printed nothing.
C8_Witness == pc = "open" /\ file = Some(default_content) /\ stdout = <<>>

\* ------------------------------------------------------------------ C9
BootstrapErrors == { Fatal("HOME"), Fatal("create_dir_all"), Fatal("File::create"), Fatal("write_all") }

\* C9: once a Bootstrap step has failed, the process has ended with status 1
\* and its parser has not run: no line taken, no warning, no record.
C9_BootstrapFailureIsFatal ==
  (\E i \in 1..Len(stderr) : stderr[i] \in BootstrapErrors)
    => /\ pc = "exit"
       /\ exit_code = Some(1)
       /\ index = 0
       /\ locals = initial_locals
       /\ cfg = None
       /\ Len(stderr) = 1

\* The write of the default content failed part-way: the process has ended.
C9_Witness ==
  /\ stderr = <<Fatal("write_all")>>
  /\ pc = "exit"
  /\ file # None
  /\ file # Some(default_content)

\* ------------------------------------------------------------------ C10
\* C10: the record CFG::parse returns has issu false; main then writes issu,
\* from the effective uid read at its start, before auto GC and dispatch read
\* the record; and the record is written by nothing else while the process
\* lives.
C10_PrivilegeSetOnceByCaller ==
  /\ [](Returned => cfg # None /\ cfg[1].issu = FALSE)
  /\ [](pc \in {"auto_gc", "dispatch"} => cfg # None /\ cfg[1].issu = issu)
  /\ [][cfg' # cfg =>
          \/ pc = "lines" /\ cfg = None /\ pc' = "set_issu"
          \/ pc = "set_issu" /\ pc' = "auto_gc" /\ cfg' = Some([cfg[1] EXCEPT !.issu = issu])
          \/ pc = "exit" /\ pc' = "main" /\ cfg' = None]_vars
  /\ [][(pc = "set_issu" => pc' = "auto_gc") /\ (pc' = "set_issu" => pc = "lines")]_vars

\* A process run as root whose file sets AUTO_GC is about to dispatch.
C10_Witness ==
  /\ pc = "dispatch"
  /\ issu
  /\ cfg[1].issu
  /\ cfg[1].auto_gc

\* ------------------------------------------------------------------ C11
\* C11: first match wins: taking one line of the file adds at most one warning,
\* and a line that starts with a recognized key is never reported as an
\* unrecognized line.
C11_OneBranchPerLine ==
  [][pc = "lines" /\ index' = index + 1 =>
       /\ Len(stderr') <= Len(stderr) + 1
       /\ (\E k \in 1..Len(Keys) : starts_with(trim(file[1][index']), Keys[k]))
            => \A i \in (Len(stderr) + 1)..Len(stderr') : stderr'[i].kind # "unrecognized"]_vars

\* ------------------------------------------------------------------ C12
\* The trimmed line is the token `alias` followed by whitespace.
AliasToken(line) == starts_with(line, K_alias) /\ Len(line) > Len(K_alias) /\ line[Len(K_alias) + 1] \in WhiteSpace

\* C12: taking a line appends to the alias sequence only when the line is the
\* token `alias`, whitespace, and a name and command around '='; a line that
\* merely starts with the characters `alias` gets a warning and appends
\* nothing; an `alias` line without '=' appends nothing.
C12_AliasTokenOnly ==
  [][pc = "lines" /\ index' = index + 1 /\ decodes(file[1][index']) =>
       LET line == trim(file[1][index'])
       IN  /\ locals'.alias # locals.alias => AliasToken(line) /\ HasEq(line)
           /\ starts_with(line, K_alias) /\ ~AliasToken(line)
                => locals'.alias = locals.alias /\ Len(stderr') > Len(stderr)
           /\ starts_with(line, K_alias) /\ ~HasEq(line)
                => locals'.alias = locals.alias]_vars

\* ------------------------------------------------------------------ C13
\* This process found no configuration file and wrote the default one.
FirstRun ==
  /\ Len(stdout) >= 2
  /\ stdout[1] = "configuration file not found"
  /\ stdout[2] = "created default configuration"

\* The record a first run returns.
FirstRunSettings ==
  [ editor        |-> <<"n","a","n","o">>,
    git           |-> <<>>,
    keep          |-> 5,
    alias         |-> <<>>,
    system_flake  |-> None,
    rebuild_flags |-> None,
    channel       |-> None,
    auto_gc       |-> TRUE,
    gc_age_days   |-> Some(<<0, 15>>),
    formatter     |-> Some(<<"a","l","e","j","a","n","d","r","a">>),
    auto_fmt      |-> TRUE,
    issu          |-> FALSE ]

\* C13: on a first run the parser reads the default content just written,
\* warns about no line of it, and returns editor nano, git empty, keep 5, no
\* alias, no flake, flags or channel, but auto_gc true, gc_age_days 15,
\* formatter alejandra and auto_fmt true: not the defaults of an empty file.
C13_FirstRunSettings ==
  /\ FirstRunSettings # DefaultSettings
  /\ FirstRun =>
       /\ file = Some(default_content)
       /\ \A i \in 1..Len(stderr) : stderr[i].kind = "error"
       /\ Returned => /\ index = Len(default_content)
                      /\ stderr = <<>>
                      /\ cfg = Some(FirstRunSettings)
       /\ pc \in {"auto_gc", "dispatch"} => cfg = Some([FirstRunSettings EXCEPT !.issu = issu])

\* The first run's parse has just returned.
C13_Witness == FirstRun /\ Returned /\ cfg = Some(FirstRunSettings) /\ index = Len(default_content)

\* ------------------------------------------------------------------ C14
\* What a failed write of the default content can leave in config.cfg.
Leftovers == { first_bytes(default_content, n) : n \in WriteCuts }

\* config.cfg holds such a leftover.
LeftoverOnDisk == file # None /\ file[1] \in Leftovers

\* C14: a write of the default content that fails ends the process with
\* status 1 and leaves the file, empty or cut short, on disk; no later step of
\* this or a following invocation writes to it; an invocation that finds it
\* skips Bootstrap, printing nothing, and opens it; and once opened its lines
\* are parsed to the end without a fatal error, the record returned being the
\* parse of the leftover lines.
C14_LeftoverFileIsParsed ==
  /\ [][pc = "write" /\ pc' = "exit" =>
          file = Some(<<>>) /\ LeftoverOnDisk' /\ exit_code' = Some(1)]_vars
  /\ [][LeftoverOnDisk /\ pc # "write" => file' = file]_vars
  /\ [][LeftoverOnDisk /\ pc = "parse" =>
          pc' = "open" /\ UNCHANGED <<dir, file, stdout, stderr, exit_code>>]_vars
  /\ [][pc' = "write" => file = None \/ pc = "create"]_vars
  /\ [](LeftoverOnDisk /\ pc \in {"lines", "set_issu"} =>
          /\ stdout = <<>>
          /\ exit_code = None
          /\ \A i \in 1..Len(stderr) : stderr[i].kind # "error")
  /\ [](LeftoverOnDisk /\ Returned =>
          /\ index = Len(file[1])
          /\ cfg = Some(make_cfg(parse_lines(initial_locals, file[1], 0).st))
          /\ stderr = parse_lines(initial_locals, file[1], 0).warn)

\* An invocation has parsed a file that an earlier one left cut in the middle of
\* a line: the cut line is reported, the record is returned.
C14_Witness ==
  /\ Returned
  /\ LeftoverOnDisk
  /\ Len(file[1]) > MaxLines
  /\ stdout = <<>>
  /\ stderr # <<>>
  /\ cfg # None

\* ------------------------------------------------------------------ C15
\* This process has launched nix-collect-garbage.
GcLaunched == \E i \in 1..Len(stdout) : stdout[i] = "Auto GC: Collecting garbage"

\* The days a record asks for between collections, and whether a marker of
\* the given age (in days, below 65536) has reached them.
GcDays(c) == IF c.gc_age_days = None THEN <<0, 7>> ELSE c.gc_age_days[1]
AgeReached(age, c) == GcDays(c)[1] = 0 /\ age >= GcDays(c)[2]

\* The process has ended because the collection failed.
GcFailed == pc = "exit" /\ stderr # <<>> /\ stderr[Len(stderr)] = Fatal("Auto GC failed")

\* C15: a process launches nix-collect-garbage exactly when, at its auto GC
\* step, auto_gc is true and the marker exists with an age of at least
\* gc_age_days days (7 when absent); a process that finds no marker creates it
\* and launches nothing, one that has auto_gc false leaves the marker alone;
\* a launch after which the process goes on leaves a marker of age zero; a
\* failed collection ends the process with status 1 and the marker as it was;
\* and the next process then starts with the same file and a marker still old
\* enough, reads its record from that file, and so launches again.
C15_AutoGcAcrossInvocations ==
  /\ [][GcLaunched' /\ ~GcLaunched =>
          /\ pc = "auto_gc"
          /\ cfg[1].auto_gc
          /\ marker # None
          /\ AgeReached(marker[1], cfg[1])]_vars
  /\ [][pc = "auto_gc" /\ pc' # pc /\ cfg[1].auto_gc /\ marker # None /\ AgeReached(marker[1], cfg[1])
          => GcLaunched']_vars
  /\ [][pc = "auto_gc" /\ pc' # pc /\ cfg[1].auto_gc /\ marker = None =>
          /\ ~GcLaunched'
          /\ pc' = "dispatch" => marker' = Some(0)
          /\ pc' # "dispatch" => marker' = None /\ exit_code' = Some(PanicStatus)]_vars
  /\ [][pc = "auto_gc" /\ pc' # pc /\ ~cfg[1].auto_gc =>
          pc' = "dispatch" /\ marker' = marker /\ ~GcLaunched']_vars
  /\ [][GcLaunched' /\ ~GcLaunched /\ pc' = "dispatch" => marker' = Some(0) /\ stderr' = stderr]_vars
  /\ [][GcLaunched' /\ ~GcLaunched /\ stderr' = Append(stderr, Fatal("Auto GC failed")) =>
          pc' = "exit" /\ exit_code' = Some(1) /\ marker' = marker]_vars
  /\ [][GcFailed /\ pc' = "main" =>
          /\ file' = file
          /\ marker' # None
          /\ AgeReached(marker'[1], cfg[1])]_vars
  /\ [][(pc \in {"main", "parse", "open", "lines", "set_issu"}) /\ file # None =>
          file' = file /\ marker' = marker]_vars
  /\ [](pc = "auto_gc" =>
          cfg = Some([make_cfg(parse_lines(initial_locals, file[1], 0).st) EXCEPT !.issu = issu]))

\* A marker seven days old, no GC_AGE_DAYS in the file: the collection was
\* launched and failed, the process has ended with status 1, the marker stays.
C15_Witness ==
  /\ GcFailed
  /\ GcLaunched
  /\ exit_code = Some(1)
  /\ cfg[1].gc_age_days = None
  /\ marker = Some(7)

====
